---- MODULE Spec2Model ----
(***************************************************************************)
(* Model of hooks/ios_reminder_hook.py: one invocation of main().  The     *)
(* hook reads one text from standard input, parses it as JSON, looks at    *)
(* tool_input.file_path and, for a .swift path, scans the proposed text    *)
(* for four anti-pattern markers.  It prints one JSON object.              *)
(*                                                                         *)
(* Python values are records [t, s, n, items]: t is the Python type,       *)
(* s the text of a str, n the number of an int or bool, items the          *)
(* elements of a list or the keys of a dict.  Texts are TLA+ strings and   *)
(* the string operations are computed character by character.              *)
(***************************************************************************)
EXTENDS Integers, Sequences, FiniteSets, TLC

VARIABLES stdin, pc, input_data, tool_input, file_path, content, reminders,
          stdout, stderr, exit_status

vars == <<stdin, pc, input_data, tool_input, file_path, content, reminders,
          stdout, stderr, exit_status>>

-----------------------------------------------------------------------------
(* Bounds of the input space                                               *)

\* largest number of '!' characters in a generated text
MaxBangs == 6

\* the threshold of the '!' count in the force-unwrap rule
BangLimit == 5

-----------------------------------------------------------------------------
(* Python values                                                           *)

PyStr(x)   == [t |-> "str",  s |-> x,  n |-> 0, items |-> {}]
PyInt(k)   == [t |-> "int",  s |-> "", n |-> k, items |-> {}]
PyBool(b)  == [t |-> "bool", s |-> "", n |-> IF b THEN 1 ELSE 0, items |-> {}]
PyNone     == [t |-> "None", s |-> "", n |-> 0, items |-> {}]
PyList(xs) == [t |-> "list", s |-> "", n |-> 0, items |-> xs]
PyDict(ks) == [t |-> "dict", s |-> "", n |-> 0, items |-> ks]
\* a key that the mapping does not hold
Absent     == [t |-> "absent", s |-> "", n |-> 0, items |-> {}]
\* a local variable that has not been assigned yet
Unbound    == [t |-> "unbound", s |-> "", n |-> 0, items |-> {}]

\* bool(v)
Truthy(v) ==
    CASE v.t = "str"  -> v.s # ""
      [] v.t = "int"  -> v.n # 0
      [] v.t = "bool" -> v.n # 0
      [] v.t = "list" -> v.items # {}
      [] v.t = "dict" -> v.items # {}
      [] OTHER        -> FALSE

\* d.get(key, default) on a dict whose entry for key is e
Get(e, default) == IF e.t = "absent" THEN default ELSE e

\* b or a: the two fields taken in the other order
PyOrSwapped(a, b) == IF Truthy(b) THEN b ELSE a

\* a or b
PyOr(a, b) == IF Truthy(a) THEN a ELSE b

-----------------------------------------------------------------------------
(* str operations                                                          *)

\* Each operation binds its argument once (\E t \in {text}), so that the
\* argument is a value and not an expression evaluated at every use.

\* sub in text
Contains(text, sub) ==
    \E t \in {text} :
        \E i \in 0..(Len(t) - Len(sub)) : SubSeq(t, i + 1, i + Len(sub)) = sub

\* text.endswith(suffix)
EndsWith(text, suffix) ==
    \E t \in {text} :
        /\ Len(t) >= Len(suffix)
        /\ SubSeq(t, Len(t) - Len(suffix) + 1, Len(t)) = suffix

\* text.count(ch) for a one-character ch
Count(text, ch) ==
    LET t == CHOOSE u \in {text} : TRUE
    IN  Cardinality({i \in 1..Len(t) : SubSeq(t, i, i) = ch})

UpperCase == "ABCDEFGHIJKLMNOPQRSTUVWXYZ"
LowerCase == "abcdefghijklmnopqrstuvwxyz"

\* the lowercase of one character
LowerChar(c) ==
    IF \E i \in 1..Len(UpperCase) : SubSeq(UpperCase, i, i) = c
    THEN LET i == CHOOSE j \in 1..Len(UpperCase) : SubSeq(UpperCase, j, j) = c
         IN  SubSeq(LowerCase, i, i)
    ELSE c

\* text.lower(): the lowercase of each character, left to right
Lower(text) ==
    LET t == CHOOSE u \in {text} : TRUE
        low[i \in 0..Len(t)] ==
            IF i = 0 THEN "" ELSE low[i - 1] \o LowerChar(SubSeq(t, i, i))
    IN  low[Len(t)]

\* "\n".join(lines)
Join(lines) ==
    LET ls == CHOOSE u \in {lines} : TRUE
        joined[i \in 0..Len(ls)] ==
            IF i = 0 THEN ""
            ELSE IF i = 1 THEN ls[1]
            ELSE joined[i - 1] \o "\n" \o ls[i]
    IN  joined[Len(ls)]

-----------------------------------------------------------------------------
(* Operators of the rules on any Python value                              *)

\* whether `sub in v` raises TypeError: v is not a container
InRaises(v) == v.t \notin {"str", "list", "dict"}

\* sub in v, for a str (substring), a list (element) or a dict (key)
In(sub, v) == IF v.t = "str" THEN Contains(v.s, sub) ELSE sub \in v.items

\* whether v.lower() / v.count() raises AttributeError: v is not a str
StrMethodRaises(v) == v.t # "str"

-----------------------------------------------------------------------------
(* The four rules                                                          *)

Header    == "iOS Best Practices:\n"
Advisory1 == "Consider using @Observable (iOS 17+) instead of ObservableObject"
Advisory2 == "Avoid force unwrapping - use guard let or if let"
Advisory3 == "Consider @MainActor instead of DispatchQueue.main in async contexts"
Advisory4 == "Consider LazyVStack for better performance with ForEach"

\* rule 1 with the `not` left out
Rule1HoldsNoNot(c) == In("ObservableObject", c) /\ In("@Observable", c)

\* rule 2 with `>=` for `>`
Rule2HoldsAtLeast(c) ==
    Contains(Lower(c.s), "force unwrap") \/ Count(c.s, "!") >= BangLimit

\* rule 4 as an `elif` of rule 3
Rule4HoldsUnlessRule3(c) ==
    /\ ~(In("DispatchQueue.main", c) /\ In("async", c))
    /\ In("VStack {", c) /\ In("ForEach", c) /\ ~In("LazyVStack", c)

\* the gate as a substring test
GatePassesAnywhere(fp) == Contains(fp.s, ".swift")

\* the message without the dash-bullets
ReminderTextNoBullet(rs) == "iOS Best Practices:\n" \o Join(rs)

\* "ObservableObject" in content and "@Observable" not in content
Rule1Raises(c) == InRaises(c)
Rule1Holds(c)  == In("ObservableObject", c) /\ ~In("@Observable", c)

\* "force unwrap" in content.lower() or content.count("!") > 5
Rule2Raises(c) == StrMethodRaises(c)
Rule2Holds(c)  == Contains(Lower(c.s), "force unwrap") \/ Count(c.s, "!") > BangLimit

\* "DispatchQueue.main" in content and "async" in content
Rule3Raises(c) == InRaises(c)
Rule3Holds(c)  == In("DispatchQueue.main", c) /\ In("async", c)

\* "VStack {" in content and "ForEach" in content and "LazyVStack" not in content
Rule4Raises(c) == InRaises(c)
Rule4Holds(c)  == In("VStack {", c) /\ In("ForEach", c) /\ ~In("LazyVStack", c)

\* file_path.endswith(".swift")
GateRaises(fp) == StrMethodRaises(fp)
GatePasses(fp) == EndsWith(fp.s, ".swift")

\* "iOS Best Practices:\n" + "\n".join(f"- {r}" for r in reminders)
ReminderText(rs) == Header \o Join([i \in 1..Len(rs) |-> "- " \o rs[i]])

\* the two JSON objects the hook prints
Approve          == [decision |-> "approve"]
ApproveWith(msg) == [decision |-> "approve", message |-> msg]

-----------------------------------------------------------------------------
(* Inputs: the text on standard input, as the tree json.loads builds.      *)
(* json says whether the text parses; top is the type of the top-level     *)
(* value; ti is the type of its "tool_input" entry ("absent" when the key  *)
(* is missing); the last three are the entries of the tool_input mapping.  *)

Input(json, top, ti, fp, c, ns) ==
    [json |-> json, top |-> top, ti |-> ti,
     file_path |-> fp, content |-> c, new_string |-> ns]

RECURSIVE Bangs(_)
Bangs(k) == IF k = 0 THEN "" ELSE "a!" \o Bangs(k - 1)

ObservableTexts == {"", "ObservableObject", "@ObservableObject", "@Observable"}
PhraseTexts     == {"", "force unwrap", "Force Unwrap"}
DispatchTexts   == {"", "DispatchQueue.main", "async", "DispatchQueue.main.async"}
StackTexts      == {"", "VStack {", "ForEach", "VStack {ForEach", "LazyVStack {ForEach"}

\* texts that vary every condition of every rule
ContentTexts ==
    {a \o p \o Bangs(k) \o d \o v :
        a \in ObservableTexts, p \in PhraseTexts, k \in 0..MaxBangs,
        d \in DispatchTexts, v \in StackTexts}

\* the sixteen combinations of the four markers
MarkerTexts ==
    {a \o p \o d \o v :
        a \in {"", "ObservableObject"}, p \in {"", "force unwrap"},
        d \in {"", "DispatchQueue.main.async"}, v \in {"", "VStack {ForEach"}}

\* values of the wrong type for a text field
NonStrings ==
    {PyNone, PyInt(0), PyInt(5), PyBool(TRUE), PyList({}),
     PyList({"ObservableObject"}), PyDict({"ObservableObject", "@Observable"})}

FilePathValues ==
    {Absent, PyStr(""), PyStr("View.swift"), PyStr(".swift"), PyStr("Model.py"),
     PyStr("View.swift.bak"), PyStr("View.SWIFT"), PyInt(5), PyNone,
     PyList({".swift"})}

NewStringValues ==
    {Absent, PyStr(""), PyStr("class M: ObservableObject"), PyInt(7), PyNone}

Inputs ==
    \* text that is not JSON
    {Input(FALSE, "none", "absent", Absent, Absent, Absent)}
    \* a top-level value that is not a mapping
    \cup {Input(TRUE, top, "absent", Absent, Absent, Absent) :
            top \in {"list", "str", "int", "None"}}
    \* a mapping without tool_input, or with one that is not a mapping
    \cup {Input(TRUE, "dict", ti, Absent, Absent, Absent) :
            ti \in {"absent", "None", "str", "list", "int"}}
    \* every path with the marker combinations and the wrong-typed fields
    \cup {Input(TRUE, "dict", "dict", fp, c, ns) :
            fp \in FilePathValues,
            c \in {Absent} \cup {PyStr(x) : x \in MarkerTexts} \cup NonStrings,
            ns \in NewStringValues}
    \* a Swift path with every generated text
    \cup {Input(TRUE, "dict", "dict", PyStr("View.swift"), PyStr(x), ns) :
            x \in ContentTexts,
            ns \in {Absent, PyStr("class M: ObservableObject"), PyInt(7)}}

-----------------------------------------------------------------------------
(* The state machine of main()                                             *)

\* nothing has been read from standard input yet
Unread == Input(FALSE, "unread", "absent", Absent, Absent, Absent)

Init ==
    /\ stdin = Unread
    /\ pc = "read"
    /\ input_data = Unbound
    /\ tool_input = Unbound
    /\ file_path = Unbound
    /\ content = Unbound
    /\ reminders = <<>>
    /\ stdout = <<>>
    /\ stderr = <<>>
    /\ exit_status = -1

\* sys.stdin.read(): the text the caller sends
Read ==
    /\ pc = "read"
    /\ stdin' \in Inputs
    /\ pc' = "parse"
    /\ UNCHANGED <<input_data, tool_input, file_path, content, reminders,
                   stdout, stderr, exit_status>>

\* input_data = json.loads(<the text read>)
Parse ==
    /\ pc = "parse"
    /\ IF stdin.json
       THEN /\ input_data' = [t |-> stdin.top, s |-> "", n |-> 0, items |-> {}]
            /\ pc' = "get_tool_input"
       ELSE /\ input_data' = input_data
            /\ pc' = "except"
    /\ UNCHANGED <<stdin, tool_input, file_path, content, reminders,
                   stdout, stderr, exit_status>>

\* tool_input = input_data.get("tool_input", {})
GetToolInput ==
    /\ pc = "get_tool_input"
    /\ IF input_data.t = "dict"
       THEN /\ tool_input' = [t |-> IF stdin.ti = "absent" THEN "dict" ELSE stdin.ti,
                              s |-> "", n |-> 0, items |-> {}]
            /\ pc' = "get_file_path"
       ELSE /\ tool_input' = tool_input
            /\ pc' = "except"
    /\ UNCHANGED <<stdin, input_data, file_path, content, reminders,
                   stdout, stderr, exit_status>>

\* the entry of the tool_input mapping for a key (no entry when the
\* mapping is the default {})
Entry(e) == IF stdin.ti = "dict" THEN e ELSE Absent

\* file_path = tool_input.get("file_path", "")
GetFilePath ==
    /\ pc = "get_file_path"
    /\ IF tool_input.t = "dict"
       THEN /\ file_path' = Get(Entry(stdin.file_path), PyStr(""))
            /\ pc' = "gate"
       ELSE /\ file_path' = file_path
            /\ pc' = "except"
    /\ UNCHANGED <<stdin, input_data, tool_input, content, reminders,
                   stdout, stderr, exit_status>>

\* the gate without its `return`
GateFallsThrough ==
    /\ pc = "gate"
    /\ IF StrMethodRaises(file_path)
       THEN pc' = "except" /\ stdout' = stdout
       ELSE IF EndsWith(file_path.s, ".swift")
            THEN pc' = "get_content" /\ stdout' = stdout
            ELSE pc' = "get_content" /\ stdout' = Append(stdout, [decision |-> "approve"])
    /\ UNCHANGED <<stdin, input_data, tool_input, file_path, content, reminders,
                   stderr, exit_status>>

\* if not file_path.endswith(".swift"): print(approve); return
Gate ==
    /\ pc = "gate"
    /\ IF GateRaises(file_path)
       THEN pc' = "except" /\ stdout' = stdout
       ELSE IF GatePasses(file_path)
            THEN pc' = "get_content" /\ stdout' = stdout
            ELSE pc' = "return" /\ stdout' = Append(stdout, Approve)
    /\ UNCHANGED <<stdin, input_data, tool_input, file_path, content, reminders,
                   stderr, exit_status>>

\* content = tool_input.get("content", "") or tool_input.get("new_string", "")
\* reminders = []
GetContent ==
    /\ pc = "get_content"
    /\ content' = PyOr(Get(Entry(stdin.content), PyStr("")),
                       Get(Entry(stdin.new_string), PyStr("")))
    /\ reminders' = <<>>
    /\ pc' = "rule1"
    /\ UNCHANGED <<stdin, input_data, tool_input, file_path,
                   stdout, stderr, exit_status>>

\* one `if <rule>: reminders.append(<advisory>)` statement
RuleStep(here, next, raises, holds, advisory) ==
    /\ pc = here
    /\ IF raises
       THEN pc' = "except" /\ reminders' = reminders
       ELSE /\ pc' = next
            /\ reminders' = IF holds THEN Append(reminders, advisory) ELSE reminders
    /\ UNCHANGED <<stdin, input_data, tool_input, file_path, content,
                   stdout, stderr, exit_status>>

Rule1 == RuleStep("rule1", "rule2", Rule1Raises(content), Rule1Holds(content), Advisory1)
Rule2 == RuleStep("rule2", "rule3", Rule2Raises(content), Rule2Holds(content), Advisory2)
Rule3 == RuleStep("rule3", "rule4", Rule3Raises(content), Rule3Holds(content), Advisory3)
Rule4 == RuleStep("rule4", "emit", Rule4Raises(content), Rule4Holds(content), Advisory4)

\* if reminders: print(approve with message) else: print(approve)
Emit ==
    /\ pc = "emit"
    /\ stdout' = IF reminders # <<>>
                 THEN Append(stdout, ApproveWith(ReminderText(reminders)))
                 ELSE Append(stdout, Approve)
    /\ pc' = "return"
    /\ UNCHANGED <<stdin, input_data, tool_input, file_path, content, reminders,
                   stderr, exit_status>>

\* a handler for the JSON error only: any other exception ends the run
\* with status 1
ExceptOnlyValueError ==
    /\ pc = "except"
    /\ IF input_data = Unbound
       THEN /\ stderr' = Append(stderr, [decision |-> "approve"])
            /\ pc' = "return"
            /\ exit_status' = exit_status
       ELSE /\ stderr' = stderr
            /\ pc' = "done"
            /\ exit_status' = 1
    /\ UNCHANGED <<stdin, input_data, tool_input, file_path, content, reminders,
                   stdout>>

\* a handler that reports the advisories collected before the failure
ExceptFlushesReminders ==
    /\ pc = "except"
    /\ stderr' = IF reminders # <<>>
                 THEN Append(stderr, [decision |-> "approve",
                                      message |-> Join(reminders)])
                 ELSE Append(stderr, [decision |-> "approve"])
    /\ pc' = "return"
    /\ UNCHANGED <<stdin, input_data, tool_input, file_path, content, reminders,
                   stdout, exit_status>>

\* except Exception: print(approve, file=sys.stderr)
Except ==
    /\ pc = "except"
    /\ stderr' = Append(stderr, Approve)
    /\ pc' = "return"
    /\ UNCHANGED <<stdin, input_data, tool_input, file_path, content, reminders,
                   stdout, exit_status>>

\* main() returns and the interpreter exits with status 0
Exit ==
    /\ pc = "return"
    /\ exit_status' = 0
    /\ pc' = "done"
    /\ UNCHANGED <<stdin, input_data, tool_input, file_path, content, reminders,
                   stdout, stderr>>

Next ==
    \/ Read
    \/ Parse
    \/ GetToolInput
    \/ GetFilePath
    \/ Gate
    \/ GetContent
    \/ Rule1
    \/ Rule2
    \/ Rule3
    \/ Rule4
    \/ Emit
    \/ Except
    \/ Exit

Spec == Init /\ [][Next]_vars

\* the interpreter runs the statements of main() one after another
FairSpec == Spec /\ WF_vars(Next)

TypeOK ==
    /\ pc \in {"read", "parse", "get_tool_input", "get_file_path", "gate", "get_content",
               "rule1", "rule2", "rule3", "rule4", "emit", "except", "return", "done"}
    /\ exit_status \in {-1, 0, 1}

-----------------------------------------------------------------------------
(* Vocabulary of the properties, stated on the input alone                 *)

\* the input is a JSON mapping whose tool_input is a mapping or is missing
WellFormed == stdin.json /\ stdin.top = "dict" /\ stdin.ti \in {"dict", "absent"}

\* the three fields of tool_input as the input gives them
PathField      == IF stdin.ti = "dict" THEN stdin.file_path ELSE Absent
ContentField   == IF stdin.ti = "dict" THEN stdin.content ELSE Absent
NewStringField == IF stdin.ti = "dict" THEN stdin.new_string ELSE Absent

\* file_path is a string that ends in ".swift"
SwiftPath ==
    /\ WellFormed
    /\ PathField.t = "str"
    /\ Len(PathField.s) >= 6
    /\ SubSeq(PathField.s, Len(PathField.s) - 5, Len(PathField.s)) = ".swift"

\* file_path is absent, or a string that does not end in ".swift"
NotSwiftPath ==
    /\ WellFormed
    /\ PathField.t \in {"absent", "str"}
    /\ ~SwiftPath

\* the values Python takes for false
Empty(v) ==
    v \in {Absent, PyStr(""), PyNone, PyInt(0), PyBool(FALSE), PyList({}), PyDict({})}

\* the value the rules inspect: content when present and non-empty,
\* otherwise new_string, and "" when that is absent too
Inspected ==
    IF ~Empty(ContentField) THEN ContentField
    ELSE IF NewStringField = Absent THEN PyStr("")
    ELSE NewStringField

\* a Swift path whose inspected value is a text
SwiftText == SwiftPath /\ Inspected.t = "str"

\* the four predicates of the rules on a text
Fires1(x) == Contains(x, "ObservableObject") /\ ~Contains(x, "@Observable")
Fires2(x) == Contains(Lower(x), "force unwrap") \/ Count(x, "!") > 5
Fires3(x) == Contains(x, "DispatchQueue.main") /\ Contains(x, "async")
Fires4(x) ==
    Contains(x, "VStack {") /\ Contains(x, "ForEach") /\ ~Contains(x, "LazyVStack")

Line1 == "- Consider using @Observable (iOS 17+) instead of ObservableObject"
Line2 == "- Avoid force unwrapping - use guard let or if let"
Line3 == "- Consider @MainActor instead of DispatchQueue.main in async contexts"
Line4 == "- Consider LazyVStack for better performance with ForEach"

\* the message for a text: the header, then the line of each rule that fires
ExpectedMessage(x) ==
    "iOS Best Practices:"
        \o (IF Fires1(x) THEN "\n" \o Line1 ELSE "")
        \o (IF Fires2(x) THEN "\n" \o Line2 ELSE "")
        \o (IF Fires3(x) THEN "\n" \o Line3 ELSE "")
        \o (IF Fires4(x) THEN "\n" \o Line4 ELSE "")

AnyFires(x) == Fires1(x) \/ Fires2(x) \/ Fires3(x) \/ Fires4(x)

\* the object expected on standard output for a text on a Swift path
ExpectedOutput(x) ==
    IF AnyFires(x)
    THEN [decision |-> "approve", message |-> ExpectedMessage(x)]
    ELSE [decision |-> "approve"]

\* the message of the object on standard output, "" when there is none
Message ==
    IF Len(stdout) >= 1 /\ "message" \in DOMAIN stdout[1]
    THEN stdout[1].message ELSE ""

HasMessage == Len(stdout) >= 1 /\ "message" \in DOMAIN stdout[1]

\* how many times sub occurs in text
Occurrences(text, sub) ==
    Cardinality({i \in 0..(Len(text) - Len(sub)) :
                    SubSeq(text, i + 1, i + Len(sub)) = sub})

\* the first line after the header is `line`
FirstAdvisoryIs(text, line) ==
    LET h == Len("iOS Best Practices:\n")
        k == Len(line)
    IN  /\ Len(text) >= h + k
        /\ SubSeq(text, 1, h) = "iOS Best Practices:\n"
        /\ SubSeq(text, h + 1, h + k) = line
        /\ (Len(text) = h + k \/ SubSeq(text, h + k + 1, h + k + 1) = "\n")

AllMarkers == "ObservableObjectforce unwrapDispatchQueue.main.asyncVStack {ForEach"

-----------------------------------------------------------------------------
(* Properties                                                              *)

\* C1: when file_path is absent or is a string that does not end in
\* ".swift", the run prints exactly {"decision": "approve"} on standard
\* output, whatever content and new_string hold, and no rule is evaluated:
\* the content is never extracted and the run never enters a rule, the
\* emit step or the error handler.
C1_NonSwiftApproves ==
    NotSwiftPath =>
        /\ pc \notin {"get_content", "rule1", "rule2", "rule3", "rule4",
                      "emit", "except"}
        /\ content = Unbound
        /\ reminders = <<>>
        /\ stderr = <<>>
        /\ (pc \in {"return", "done"} => stdout = <<[decision |-> "approve"]>>)

C1_Witness ==
    /\ pc = "done"
    /\ NotSwiftPath
    /\ PathField = PyStr("Model.py")
    /\ ContentField = PyStr(AllMarkers)
    /\ stdout = <<[decision |-> "approve"]>>

\* the classes of failing input: text that is not JSON, a top-level value
\* or a tool_input that is not a mapping, a file_path that is not a string,
\* an inspected value that is not a string on a Swift path
ListedFailure ==
    \/ (stdin # Unread /\ ~stdin.json)
    \/ stdin.top # "dict"
    \/ stdin.ti \notin {"dict", "absent"}
    \/ PathField.t \notin {"str", "absent"}
    \/ (SwiftPath /\ Inspected.t # "str")

\* C2: fail-open.  A run that fails has printed nothing when the failure
\* is caught; every run that took the error path, and every run on an input
\* of the failing classes, ends with the single response
\* {"decision": "approve"} (no message) and exit status 0.
C2_FailOpen ==
    /\ (pc = "except" => stdout = <<>> /\ stderr = <<>>)
    /\ (pc = "done" /\ (ListedFailure \/ stderr # <<>>) =>
            /\ stdout \o stderr = <<[decision |-> "approve"]>>
            /\ stdout = <<>>
            /\ exit_status = 0)
    /\ (pc = "done" => exit_status = 0)

C2_Witness ==
    /\ pc = "done"
    /\ ~stdin.json
    /\ stdout \o stderr = <<[decision |-> "approve"]>>
    /\ exit_status = 0

\* C3: every run, whatever its input, has written exactly one JSON object
\* {"decision": "approve", "message"?} to standard output when it exits.
C3_OneObjectOnStdout ==
    pc = "done" =>
        /\ Len(stdout) = 1
        /\ stdout[1].decision = "approve"
        /\ DOMAIN stdout[1] \subseteq {"decision", "message"}

\* C4: on a Swift path with a text to inspect, the output has a message
\* exactly when a rule fires, and the message is the header followed by one
\* "- <advisory>" line for each rule that fires, in the order 1, 2, 3, 4.
C4_MessageFormat ==
    pc = "done" /\ SwiftText =>
        /\ stderr = <<>>
        /\ stdout = <<ExpectedOutput(Inspected.s)>>
        /\ (HasMessage <=> AnyFires(Inspected.s))
        /\ Occurrences(Message, Line1) = (IF Fires1(Inspected.s) THEN 1 ELSE 0)
        /\ Occurrences(Message, Line3) = (IF Fires3(Inspected.s) THEN 1 ELSE 0)
        /\ Occurrences(Message, Line4) = (IF Fires4(Inspected.s) THEN 1 ELSE 0)

C4_Witness ==
    /\ pc = "done"
    /\ SwiftText
    /\ Fires1(Inspected.s) /\ Fires2(Inspected.s)
    /\ Fires3(Inspected.s) /\ Fires4(Inspected.s)
    /\ Message = "iOS Best Practices:\n" \o Line1 \o "\n" \o Line2 \o "\n"
                    \o Line3 \o "\n" \o Line4

\* C5: on a Swift path with a text to inspect, the force-unwrap advisory is
\* in the message exactly when the lowercased text contains "force unwrap"
\* or the text has more than 5 '!'; it is there once even when both hold,
\* and not at all with 5 or fewer '!' and no phrase.
C5_ForceUnwrap ==
    pc = "done" /\ SwiftText =>
        LET x      == Inspected.s
            phrase == Contains(Lower(x), "force unwrap")
            bangs  == Count(x, "!")
        IN  /\ (phrase \/ bangs > 5 => Occurrences(Message, Line2) = 1)
            /\ (~phrase /\ bangs <= 5 => Occurrences(Message, Line2) = 0)

C5_Witness ==
    /\ pc = "done"
    /\ SwiftText
    /\ Contains(Inspected.s, "Force Unwrap")
    /\ Count(Inspected.s, "!") = 6
    /\ Occurrences(Message, Line2) = 1

\* C6 as stated: for every input whose text contains "ObservableObject" and
\* not "@Observable", the output has a message whose first advisory line is
\* the suggestion to migrate to @Observable.
C6_AsStated ==
    pc = "done" /\ WellFormed /\ PathField.t = "str"
        /\ ContentField.t = "str" /\ Fires1(ContentField.s) =>
            HasMessage /\ FirstAdvisoryIs(Message, Line1)

\* C6, amended: the same for every input whose file_path ends in ".swift".
C6_SwiftMigrationFirst ==
    pc = "done" /\ SwiftText /\ Fires1(Inspected.s) =>
        HasMessage /\ FirstAdvisoryIs(Message, Line1)

C6_Witness ==
    /\ pc = "done"
    /\ SwiftText
    /\ Fires1(Inspected.s) /\ Fires2(Inspected.s)
    /\ FirstAdvisoryIs(Message, Line1)

\* C7: the text the rules inspect is content when it is present and
\* non-empty, otherwise new_string, and "" when both are absent; so with a
\* non-empty content the output is decided by content alone, and with both
\* absent on a Swift path the output is {"decision": "approve"}.
C7_ContentPrecedence ==
    /\ (content # Unbound /\ ContentField.t \in {"str", "absent"} =>
            content = (IF ContentField.t = "str" /\ ContentField.s # ""
                       THEN ContentField
                       ELSE IF NewStringField.t = "absent" THEN PyStr("")
                       ELSE NewStringField))
    /\ (pc = "done" /\ SwiftPath /\ ContentField.t = "str" /\ ContentField.s # "" =>
            stdout = <<ExpectedOutput(ContentField.s)>> /\ stderr = <<>>)
    /\ (pc = "done" /\ SwiftPath /\ ContentField.t = "absent"
            /\ NewStringField.t = "absent" =>
            stdout = <<[decision |-> "approve"]>> /\ stderr = <<>>)

C7_Witness ==
    /\ pc = "done"
    /\ SwiftPath
    /\ ContentField = PyStr("@Observable")
    /\ NewStringField = PyStr("class M: ObservableObject")
    /\ content = PyStr("@Observable")
    /\ stdout = <<[decision |-> "approve"]>>

\* the rules that fire on a text, as the code evaluates them
Fired(x) ==
    {i \in 1..4 :
        CASE i = 1 -> Rule1Holds(PyStr(x))
          [] i = 2 -> Rule2Holds(PyStr(x))
          [] i = 3 -> Rule3Holds(PyStr(x))
          [] i = 4 -> Rule4Holds(PyStr(x))}

\* each of the sixteen subsets of the rules fires on some text
AllSubsetsFire == \A S \in SUBSET (1..4) : \E x \in ContentTexts : Fired(x) = S

\* C8: the rules are independent.  Each of the 16 subsets of the four
\* advisories is produced by some text, and on a Swift path the advisory of
\* a rule is in the output exactly when that rule's own predicate holds.
C8_Independent ==
    /\ AllSubsetsFire
    /\ (pc = "done" /\ SwiftText =>
            LET x == Inspected.s
            IN  /\ (Occurrences(Message, Line1) = 1) <=> Fires1(x)
                /\ (Occurrences(Message, Line2) = 1) <=> Fires2(x)
                /\ (Occurrences(Message, Line3) = 1) <=> Fires3(x)
                /\ (Occurrences(Message, Line4) = 1) <=> Fires4(x))

C8_Witness ==
    /\ pc = "done"
    /\ SwiftText
    /\ ~Fires1(Inspected.s) /\ Fires2(Inspected.s)
    /\ ~Fires3(Inspected.s) /\ Fires4(Inspected.s)
    /\ Message = "iOS Best Practices:\n" \o Line2 \o "\n" \o Line4

\* every object printed so far, on either stream
Responses == stdout \o stderr

\* C9: every run terminates; when it has, it has printed exactly one
\* response over both streams together, and every response ever printed
\* has the decision "approve".
C9_TerminatesWithOneResponse ==
    /\ <>(pc = "done")
    /\ [](pc = "done" => Len(Responses) = 1)
    /\ [](\A i \in 1..Len(Responses) : Responses[i].decision = "approve")

C9_Witness ==
    /\ pc = "done"
    /\ Len(stdout) = 1
    /\ "message" \in DOMAIN stdout[1]
    /\ stdout[1].decision = "approve"
    /\ stderr = <<>>

WrongTyped(v) == v.t \notin {"str", "absent"}

\* C10: the gate runs before the content is extracted and nothing is
\* printed before all four rules are evaluated.  With a string file_path
\* that does not end in ".swift", a wrong-typed content or new_string never
\* leads to the error path and standard output gets {"decision": "approve"};
\* with a Swift path and an inspected value that is not a string, the only
\* response is the one of the error path, without a message on any stream,
\* even when a rule has already collected an advisory.
C10_GateFirstEmitLast ==
    /\ (pc \in {"read", "parse", "get_tool_input", "get_file_path", "gate"} =>
            content = Unbound)
    /\ (pc \in {"get_content", "rule1", "rule2", "rule3", "rule4", "emit"} =>
            stdout = <<>> /\ stderr = <<>>)
    /\ (NotSwiftPath /\ PathField.t = "str"
            /\ (WrongTyped(ContentField) \/ WrongTyped(NewStringField)) =>
            /\ pc # "except"
            /\ stderr = <<>>
            /\ (pc = "done" => stdout = <<[decision |-> "approve"]>>))
    /\ (pc = "done" /\ SwiftPath /\ Inspected.t # "str" =>
            stdout = <<>> /\ stderr = <<[decision |-> "approve"]>>)

C10_Witness ==
    /\ pc = "done"
    /\ SwiftPath
    /\ Inspected.t = "list"
    /\ reminders # <<>>
    /\ stdout = <<>>
    /\ stderr = <<[decision |-> "approve"]>>

====
